---- MODULE Spec2Model ----
(***************************************************************************)
(* A model of the limit-order book of order-book/src/lib.rs together with  *)
(* its account ledger (AccountManager), driven by the request handlers of  *)
(* service/src/main.rs.                                                    *)
(*                                                                         *)
(* Numbers.  Quantities are U256 fixed-point integers.  ERROR keeps the    *)
(* value of the source.  The unit scale of the source is 10^18, which is   *)
(* beyond the integers TLC computes with; the source only ever divides by  *)
(* it (floor(amount * price / unit_scale)), so the model divides by SCALE  *)
(* and chooses prices that are not multiples of SCALE where the rounding   *)
(* matters.  U256 `-` panics when the result would be negative; the model  *)
(* states every such panic.  All inputs are far below 2^256, so `+` and    *)
(* saturating_mul never reach their limit.                                 *)
(*                                                                         *)
(* Hashes.  hash_hex (EIP-712) is modelled as the tuple of the hashed      *)
(* fields: equal fields give equal ids, different fields different ids.    *)
(*                                                                         *)
(* HashMap iteration.  A price level is a std HashMap<Hash, Order>; the    *)
(* order in which `iter_mut` visits its entries is not the insertion order *)
(* and is chosen here nondeterministically (the parameter `iter`).         *)
(***************************************************************************)
EXTENDS Integers, Sequences, FiniteSets, TLC

\* ---------------------------------------------------------------- constants
ERROR == 10000
SCALE == 10
Bid == 0
Ask == 1

\* ---------------------------------------------------------------- bounds
MaxOps == 5

Traders == {"alice", "bob"}
Amounts == {2 * ERROR, 2 * ERROR + 1, 4 * ERROR}
Prices == {SCALE, SCALE + (SCALE \div 2)}
Nonces == {1}
\* (ddxBalance, usdBalance) of a JsonAccount after decimal_to_u256
Fundings == {<<4 * ERROR, 8 * ERROR>>}

VARIABLES
    accounts,   \* AccountManager.accounts : Address -> Account
    bid_book,   \* OrderBook.bid_book : [price_map, price_levels]
    ask_book,   \* OrderBook.ask_book
    order_loc,  \* OrderBook.order_loc : Hash -> <<Side, level index>>
    poisoned,   \* a handler panicked while holding the guards
    arrival,    \* ghost: the ids resting in the levels, in insertion order
    collided,   \* ghost: an order was rested under an id that was resting already
    last,       \* ghost: the last request and what it returned
    nops,       \* ghost: number of requests served
    guards,     \* AppState: who holds each Mutex ("free", a worker, "poisoned")
    thr,        \* the request each worker is handling and its position in it
    l2_book     \* ghost: the L2OrderBook the last get_book returned

vars ==
    <<accounts, bid_book, ask_book, order_loc, poisoned, arrival, collided, last, nops,
      guards, thr, l2_book>>

\* ---------------------------------------------------------------- maps
EmptyMap == <<>>

Put(m, k, v) == [x \in (DOMAIN m) \cup {k} |-> IF x = k THEN v ELSE m[x]]

Remove(m, k) == [x \in (DOMAIN m) \ {k} |-> m[x]]

Max(S) == CHOOSE x \in S : \A y \in S : y <= x

Min(S) == CHOOSE x \in S : \A y \in S : x <= y

RECURSIVE Ascending(_)
Ascending(S) == IF S = {} THEN <<>> ELSE <<Min(S)>> \o Ascending(S \ {Min(S)})

RECURSIVE Descending(_)
Descending(S) == IF S = {} THEN <<>> ELSE <<Max(S)>> \o Descending(S \ {Max(S)})

Perms(S) ==
    {f \in [1..Cardinality(S) -> S] :
        \A i, j \in 1..Cardinality(S) : i /= j => f[i] /= f[j]}

Restrict(seq, S) == SelectSeq(seq, LAMBDA x : x \in S)

RECURSIVE SumOver(_, _)
SumOver(S, m) ==
    IF S = {} THEN 0
    ELSE LET x == CHOOSE y \in S : TRUE IN m[x] + SumOver(S \ {x}, m)

\* ---------------------------------------------------------------- orders
NoOrder == [amount |-> 0, nonce |-> 0, price |-> 0, side |-> Bid, traderAddress |-> "none"]

NoId == <<>>

Orders ==
    [amount : Amounts, nonce : Nonces, price : Prices, side : {Bid, Ask},
     traderAddress : Traders]

hash_hex(o) == <<o.amount, o.nonce, o.price, o.side, o.traderAddress>>

Notional(amount, price) == (amount * price) \div SCALE

\* ---------------------------------------------------------------- accounts
from_json(traderAddress, f) ==
    [ddx_balance |-> f[1], ddx_hold |-> 0, usd_balance |-> f[2], usd_hold |-> 0,
     trader_address |-> traderAddress]

total_ddx(a) == a.ddx_balance + a.ddx_hold

total_usd(a) == a.usd_balance + a.usd_hold

\* the mutant of validate_order: the hold is raised before the balance is
\* tested, so that a rejected order leaves its cost on hold
validate_order_holds_first(accts, o) ==
    IF o.traderAddress \notin DOMAIN accts
    THEN [res |-> "none", accounts |-> accts]
    ELSE
        LET t == o.traderAddress
            a == accts[t]
            diff == IF o.side = Bid THEN Notional(o.amount, o.price) ELSE o.amount
            free == IF o.side = Bid THEN a.usd_balance ELSE a.ddx_balance
            held == IF o.side = Bid THEN [a EXCEPT !.usd_hold = @ + diff]
                    ELSE [a EXCEPT !.ddx_hold = @ + diff]
        IN  IF diff <= ERROR + free
            THEN IF diff > free
                 THEN [res |-> "panic", accounts |-> [accts EXCEPT ![t] = held]]
                 ELSE [res |-> "some",
                       accounts |->
                           [accts EXCEPT ![t] =
                               IF o.side = Bid
                               THEN [held EXCEPT !.usd_balance = @ - diff]
                               ELSE [held EXCEPT !.ddx_balance = @ - diff]]]
            ELSE [res |-> "none", accounts |-> [accts EXCEPT ![t] = held]]

\* validate_order: [res, accounts]; res is "some", "none" or "panic"
validate_order(accts, o) ==
    IF o.traderAddress \notin DOMAIN accts
    THEN [res |-> "none", accounts |-> accts]
    ELSE
        LET t == o.traderAddress
            a == accts[t]
            diff == IF o.side = Bid THEN Notional(o.amount, o.price) ELSE o.amount
            free == IF o.side = Bid THEN a.usd_balance ELSE a.ddx_balance
        IN  IF diff <= ERROR + free
            THEN IF diff > free
                 THEN [res |-> "panic", accounts |-> accts]
                 ELSE [res |-> "some",
                       accounts |->
                           [accts EXCEPT ![t] =
                               IF o.side = Bid
                               THEN [a EXCEPT !.usd_balance = @ - diff,
                                              !.usd_hold = @ + diff]
                               ELSE [a EXCEPT !.ddx_balance = @ - diff,
                                              !.ddx_hold = @ + diff]]]
            ELSE [res |-> "none", accounts |-> accts]

\* the mutant of release_pending_fund: the released amount is credited to the
\* free balance but stays on hold
release_keeps_hold(accts, o) ==
    IF o.traderAddress \notin DOMAIN accts
    THEN [panic |-> FALSE, accounts |-> accts]
    ELSE
        LET t == o.traderAddress
            a == accts[t]
            diff == IF o.side = Bid THEN Notional(o.amount, o.price) ELSE o.amount
            hold == IF o.side = Bid THEN a.usd_hold ELSE a.ddx_hold
            credited == IF o.side = Bid
                        THEN [a EXCEPT !.usd_balance = @ + diff]
                        ELSE [a EXCEPT !.ddx_balance = @ + diff]
        IN  IF ~(diff <= ERROR + hold)
            THEN [panic |-> TRUE, accounts |-> accts]
            ELSE [panic |-> FALSE, accounts |-> [accts EXCEPT ![t] = credited]]

\* release_pending_fund: [panic, accounts]
release_pending_fund(accts, o) ==
    IF o.traderAddress \notin DOMAIN accts
    THEN [panic |-> FALSE, accounts |-> accts]
    ELSE
        LET t == o.traderAddress
            a == accts[t]
            diff == IF o.side = Bid THEN Notional(o.amount, o.price) ELSE o.amount
            hold == IF o.side = Bid THEN a.usd_hold ELSE a.ddx_hold
            credited == IF o.side = Bid
                        THEN [a EXCEPT !.usd_balance = @ + diff]
                        ELSE [a EXCEPT !.ddx_balance = @ + diff]
        IN  IF ~(diff <= ERROR + hold)
            THEN [panic |-> TRUE, accounts |-> accts]
            ELSE IF diff > hold
            THEN [panic |-> TRUE, accounts |-> [accts EXCEPT ![t] = credited]]
            ELSE [panic |-> FALSE,
                  accounts |->
                      [accts EXCEPT ![t] =
                          IF o.side = Bid
                          THEN [credited EXCEPT !.usd_hold = @ - diff]
                          ELSE [credited EXCEPT !.ddx_hold = @ - diff]]]

\* the mutant of update: the buyer's USD hold is debited at the unit price,
\* not at the fill's price
update_unit_price(a, side, fill) ==
    LET n == Notional(fill.fill_amount, fill.price) IN
    IF side = Bid
    THEN LET credited == [a EXCEPT !.ddx_balance = @ + fill.fill_amount]
             unit == Notional(fill.fill_amount, SCALE)
         IN  IF a.trader_address /= fill.to
             THEN [panic |-> TRUE, mismatch |-> TRUE, account |-> a]
             ELSE IF unit > credited.usd_hold
             THEN [panic |-> TRUE, mismatch |-> FALSE, account |-> credited]
             ELSE [panic |-> FALSE, mismatch |-> FALSE,
                   account |-> [credited EXCEPT !.usd_hold = @ - unit]]
    ELSE IF a.trader_address /= fill.from
         THEN [panic |-> TRUE, mismatch |-> TRUE, account |-> a]
         ELSE IF fill.fill_amount > a.ddx_hold
         THEN [panic |-> TRUE, mismatch |-> FALSE, account |-> a]
         ELSE [panic |-> FALSE, mismatch |-> FALSE,
               account |-> [a EXCEPT !.ddx_hold = @ - fill.fill_amount,
                                     !.usd_balance = @ + n]]

\* Account::update: [panic, mismatch, account]; mismatch tells the assert_eq!
\* on trader_address from the U256 underflow
update(a, side, fill) ==
    LET n == Notional(fill.fill_amount, fill.price) IN
    IF side = Bid
    THEN LET credited == [a EXCEPT !.ddx_balance = @ + fill.fill_amount] IN
         IF a.trader_address /= fill.to
         THEN [panic |-> TRUE, mismatch |-> TRUE, account |-> a]
         ELSE IF n > credited.usd_hold
         THEN [panic |-> TRUE, mismatch |-> FALSE, account |-> credited]
         ELSE [panic |-> FALSE, mismatch |-> FALSE,
               account |-> [credited EXCEPT !.usd_hold = @ - n]]
    ELSE IF a.trader_address /= fill.from
         THEN [panic |-> TRUE, mismatch |-> TRUE, account |-> a]
         ELSE IF fill.fill_amount > a.ddx_hold
         THEN [panic |-> TRUE, mismatch |-> FALSE, account |-> a]
         ELSE [panic |-> FALSE, mismatch |-> FALSE,
               account |-> [a EXCEPT !.ddx_hold = @ - fill.fill_amount,
                                     !.usd_balance = @ + n]]

\* the mutant of settle_fill: a fill is settled only when the ledger has both
\* of its traders
settle_fill_both_tracked(accts, fill) ==
    IF fill.from \in DOMAIN accts /\ fill.to \in DOMAIN accts
    THEN LET s == update(accts[fill.from], Ask, fill)
             a1 == [accts EXCEPT ![fill.from] = s.account]
             b == update(a1[fill.to], Bid, fill)
             a2 == [a1 EXCEPT ![fill.to] = b.account]
         IN  IF s.panic
             THEN [panic |-> TRUE, mismatch |-> s.mismatch, accounts |-> a1]
             ELSE IF b.panic
             THEN [panic |-> TRUE, mismatch |-> b.mismatch, accounts |-> a2]
             ELSE [panic |-> FALSE, mismatch |-> FALSE, accounts |-> a2]
    ELSE [panic |-> FALSE, mismatch |-> FALSE, accounts |-> accts]

\* the body of the `for` loop of update_accounts for one fill: the seller's
\* account is updated if the ledger has it, then the buyer's if the ledger
\* has it; [panic, mismatch, accounts]
settle_fill(accts, fill) ==
    LET s == IF fill.from \in DOMAIN accts
             THEN update(accts[fill.from], Ask, fill)
             ELSE [panic |-> FALSE, mismatch |-> FALSE, account |-> NoOrder]
        a1 == IF fill.from \in DOMAIN accts
              THEN [accts EXCEPT ![fill.from] = s.account]
              ELSE accts
        b == IF fill.to \in DOMAIN a1
             THEN update(a1[fill.to], Bid, fill)
             ELSE [panic |-> FALSE, mismatch |-> FALSE, account |-> NoOrder]
        a2 == IF fill.to \in DOMAIN a1
              THEN [a1 EXCEPT ![fill.to] = b.account]
              ELSE a1
    IN  IF s.panic
        THEN [panic |-> TRUE, mismatch |-> s.mismatch, accounts |-> a1]
        ELSE IF b.panic
        THEN [panic |-> TRUE, mismatch |-> b.mismatch, accounts |-> a2]
        ELSE [panic |-> FALSE, mismatch |-> FALSE, accounts |-> a2]

\* update_accounts: [panic, mismatch, accounts]
RECURSIVE update_accounts(_, _)
update_accounts(accts, fills) ==
    IF fills = <<>> THEN [panic |-> FALSE, mismatch |-> FALSE, accounts |-> accts]
    ELSE LET u == settle_fill(accts, Head(fills))
         IN  IF u.panic THEN u ELSE update_accounts(u.accounts, Tail(fills))

\* ---------------------------------------------------------------- order book
NewHalfBook == [price_map |-> EmptyMap, price_levels |-> <<>>]

\* the level the index names: price_levels.get(price_level).unwrap()
LevelAt(book, idx) == book.price_levels[idx + 1]

BookOf(side, bids, asks) == IF side = Bid THEN bids ELSE asks

\* the mutant of create_new_limit_order: an order at a price that has a level
\* already is entered in the index but not inserted in the level
create_index_only(book, loc, side, order) ==
    LET order_id == hash_hex(order) IN
    IF order.price \in DOMAIN book.price_map
    THEN LET val == book.price_map[order.price] IN
         [book |-> book,
          order_loc |-> Put(loc, order_id, <<side, val>>),
          order_id |-> order_id]
    ELSE LET new_loc == Len(book.price_levels) IN
         [book |-> [price_map |-> Put(book.price_map, order.price, new_loc),
                    price_levels |->
                        Append(book.price_levels, Put(EmptyMap, order_id, order))],
          order_loc |-> Put(loc, order_id, <<side, new_loc>>),
          order_id |-> order_id]

\* the mutant of new_level: a new price is given the first slot
first_level(price_levels) == 0

\* `let new_loc = book.price_levels.len()`: the slot of a new price
new_level(price_levels) == Len(price_levels)

\* create_new_limit_order: [book, order_loc, order_id]
create_new_limit_order(book, loc, side, order) ==
    LET order_id == hash_hex(order) IN
    IF order.price \in DOMAIN book.price_map
    THEN LET val == book.price_map[order.price] IN
         [book |-> [book EXCEPT !.price_levels[val + 1] = Put(@, order_id, order)],
          order_loc |-> Put(loc, order_id, <<side, val>>),
          order_id |-> order_id]
    ELSE LET new_loc == new_level(book.price_levels) IN
         [book |-> [price_map |-> Put(book.price_map, order.price, new_loc),
                    price_levels |->
                        Append(book.price_levels, Put(EmptyMap, order_id, order))],
          order_loc |-> Put(loc, order_id, <<side, new_loc>>),
          order_id |-> order_id]

\* the mutant of not_self_match: no self-match prevention
always_match(from, to) == TRUE

\* `if from != to`
not_self_match(from, to) == from /= to

\* the mutant of fill_price: the fill carries the aggressor's limit price
fill_price_aggressor(order, encoded_order) == encoded_order.price

\* `price: order.price.clone()` of both Fill literals; encoded_order is the
\* aggressor, which the source does not read here
fill_price(order, encoded_order) == order.price

\* the mutant of retain: only the orders filled down to zero are dropped
retain_nonzero(price_level) ==
    [k \in {x \in DOMAIN price_level : price_level[x].amount > 0} |-> price_level[k]]

\* price_level.retain(|_, o| o.amount > U256::from(ERROR))
retain(price_level) ==
    [k \in {x \in DOMAIN price_level : price_level[x].amount > ERROR} |-> price_level[k]]

\* the mutant of min_amount: the fill always reports the resting order's amount
whole_amount(amount, remaining) == amount

\* fill_amount of the two Fill literals: order.amount in the branch
\* `order.amount <= fill_result.remaining`, fill_result.remaining in the other
min_amount(amount, remaining) == IF amount <= remaining THEN amount ELSE remaining

\* the mutant of amount_after_fill: a partial fill adds to the resting amount
amount_raised_by_fill(amount, remaining) ==
    IF amount <= remaining THEN 0 ELSE amount + remaining

\* what a fill leaves of the resting order: `order.amount = U256::zero()` in
\* the branch `order.amount <= fill_result.remaining`, `order.amount -=
\* fill_result.remaining` in the other
amount_after_fill(amount, remaining) ==
    IF amount <= remaining THEN 0 ELSE amount - remaining

\* the mutant of from_to: the aggressor is the buyer of every fill
aggressor_buys(side, resting, trader_addr) == <<resting, trader_addr>>

\* `let (from, to) = match side`: the seller and the buyer of a fill between
\* the resting order's trader and the trader whose order of `side` came in
from_to(side, resting, trader_addr) ==
    IF side = Bid THEN <<resting, trader_addr>> ELSE <<trader_addr, resting>>

\* the `for` loop of match_at_price_level over the entries in the order `keys`;
\* st = [filled_orders, remaining, price_level, order_loc].  trader_addr and
\* side are read from encoded_order, the order add_order takes them from.
RECURSIVE MatchLoop(_, _, _, _)
MatchLoop(st, keys, maker_order, encoded_order) ==
    IF keys = <<>> THEN st
    ELSE
        LET trader_addr == encoded_order.traderAddress
            side == encoded_order.side
            order_id == Head(keys)
            order == st.price_level[order_id]
            from == from_to(side, order.traderAddress, trader_addr)[1]
            to == from_to(side, order.traderAddress, trader_addr)[2]
            whole == order.amount <= st.remaining
            fill == [from |-> from, to |-> to,
                     maker_hash |-> maker_order, taker_hash |-> order_id,
                     fill_amount |-> min_amount(order.amount, st.remaining),
                     price |-> fill_price(order, encoded_order)]
            st2 == [filled_orders |-> Append(st.filled_orders, fill),
                    remaining |-> IF whole THEN st.remaining - order.amount ELSE 0,
                    price_level |->
                        [st.price_level EXCEPT ![order_id].amount =
                            amount_after_fill(@, st.remaining)],
                    order_loc |-> IF whole THEN Remove(st.order_loc, order_id)
                                  ELSE st.order_loc]
        IN  IF not_self_match(from, to)
            THEN IF st2.remaining <= ERROR THEN st2
                 ELSE MatchLoop(st2, Tail(keys), maker_order, encoded_order)
            ELSE MatchLoop(st, Tail(keys), maker_order, encoded_order)

\* match_at_price_level: [filled_orders, remaining, price_level, order_loc];
\* iter is the order in which the HashMap yields its entries
match_at_price_level(fr, price_level, loc, maker_order, encoded_order, iter) ==
    LET st == MatchLoop([filled_orders |-> fr.filled_orders, remaining |-> fr.remaining,
                         price_level |-> price_level, order_loc |-> loc],
                        Restrict(iter, DOMAIN price_level),
                        maker_order, encoded_order)
    IN  [st EXCEPT !.price_level = retain(@)]

\* the mutant of Crosses: a level at the order's own price is not crossed
crosses_strictly(side, price, x) == IF side = Bid THEN price > x ELSE price < x

\* the loop condition of add_order: does the level at price x cross the order
Crosses(side, price, x) == IF side = Bid THEN price >= x ELSE price <= x

\* the `while` loop of add_order over the opposite price_map, best price first;
\* st = [filled_orders, remaining, book, order_loc]
RECURSIVE CrossLoop(_, _, _, _, _)
CrossLoop(st, xs, encoded_order, maker_order, iter) ==
    IF xs = <<>> THEN st
    ELSE IF ~Crosses(encoded_order.side, encoded_order.price, Head(xs)) THEN st
    ELSE
        LET curr_level == st.book.price_map[Head(xs)]
            m == match_at_price_level(st, st.book.price_levels[curr_level + 1],
                                      st.order_loc, maker_order,
                                      encoded_order, iter)
        IN  CrossLoop([filled_orders |-> m.filled_orders,
                       remaining |-> m.remaining,
                       book |-> [st.book EXCEPT !.price_levels[curr_level + 1] =
                                                    m.price_level],
                       order_loc |-> m.order_loc],
                      Tail(xs), encoded_order, maker_order, iter)

\* the ids resting in the levels of book
Resting(book) ==
    UNION {DOMAIN book.price_levels[i] : i \in 1..Len(book.price_levels)}

\* the ids whose iteration order add_order depends on
CrossedIds(order, bids, asks) ==
    LET opp == BookOf(1 - order.side, bids, asks) IN
    UNION {DOMAIN opp.price_levels[opp.price_map[x] + 1] :
              x \in {y \in DOMAIN opp.price_map : Crosses(order.side, order.price, y)}}

\* the mutant of still_remaining: any remainder above zero is rested
any_remaining(remaining) == remaining > 0

\* `if fill_result.remaining > U256::from(ERROR)`: the remainder is rested
still_remaining(remaining) == remaining > ERROR

\* the mutant of status_after: the status FillResult::new gave is kept when
\* nothing is rested
status_kept(rests) == IF rests THEN "PartiallyFilled" ELSE "Created"

\* the status add_order assigns over the `Created` of FillResult::new: in the
\* branch that rests the remainder, and in the other
status_after(rests) == IF rests THEN "PartiallyFilled" ELSE "Filled"

\* add_order: [res, accounts, bid_book, ask_book, order_loc, fill_result, rested]
add_order(accts, bids, asks, loc, order, iter) ==
    LET v == validate_order(accts, order) IN
    IF v.res /= "some"
    THEN [res |-> v.res, accounts |-> v.accounts, bid_book |-> bids, ask_book |-> asks,
          order_loc |-> loc,
          fill_result |-> [filled_orders |-> <<>>, remaining |-> 0,
                           status |-> "Created", side |-> order.side],
          rested |-> NoId]
    ELSE
        LET encoded_order == order
            maker_order == hash_hex(encoded_order)
            opp == BookOf(1 - order.side, bids, asks)
            own == BookOf(order.side, bids, asks)
            xs == IF order.side = Bid THEN Ascending(DOMAIN opp.price_map)
                  ELSE Descending(DOMAIN opp.price_map)
            m == CrossLoop([filled_orders |-> <<>>, remaining |-> encoded_order.amount,
                            book |-> opp, order_loc |-> loc],
                           xs, encoded_order, maker_order, iter)
            rests == still_remaining(m.remaining)
            new_order == [encoded_order EXCEPT !.amount = m.remaining]
            c == IF rests
                 THEN create_new_limit_order(own, m.order_loc, order.side, new_order)
                 ELSE [book |-> own, order_loc |-> m.order_loc, order_id |-> NoId]
        IN  [res |-> "some", accounts |-> v.accounts,
             bid_book |-> IF order.side = Bid THEN c.book ELSE m.book,
             ask_book |-> IF order.side = Bid THEN m.book ELSE c.book,
             order_loc |-> c.order_loc,
             fill_result |-> [filled_orders |-> m.filled_orders,
                              remaining |-> m.remaining,
                              status |-> status_after(rests),
                              side |-> order.side],
             rested |-> c.order_id]

\* ---------------------------------------------------------------- requests
Arrived(seq, bids, asks, id) ==
    LET here == Resting(bids) \cup Resting(asks)
        kept == Restrict(seq, here)
    IN  IF id /= NoId /\ id \in here /\ ~(\E i \in 1..Len(kept) : kept[i] = id)
        THEN Append(kept, id) ELSE kept

Reply(op, order, id, res, fr, rested) ==
    [op |-> op, order |-> order, id |-> id, res |-> res,
     filled_orders |-> fr.filled_orders, remaining |-> fr.remaining,
     status |-> fr.status, rested |-> rested]

NoFills == [filled_orders |-> <<>>, remaining |-> 0, status |-> "Created"]

\* L2OrderBook::new, with the ids of the orders behind the entries (ghost)
NewL2OrderBook == [asks |-> <<>>, bids |-> <<>>, ask_ids |-> <<>>, bid_ids |-> <<>>]

\* the three Mutexes of AppState
Guards == {"manager", "order_book", "user_count"}

\* the workers of the HttpServer, each running one handler at a time
Threads == {"w1", "w2"}

\* a worker that is handling no request
Idle == [op |-> "none", pc |-> 0, order |-> NoOrder, id |-> NoId, funding |-> <<0, 0>>,
         fr |-> NoFills, rested |-> NoId, panicked |-> FALSE]

Init ==
    /\ accounts = EmptyMap
    /\ bid_book = NewHalfBook
    /\ ask_book = NewHalfBook
    /\ order_loc = EmptyMap
    /\ poisoned = FALSE
    /\ arrival = <<>>
    /\ collided = FALSE
    /\ last = Reply("new", NoOrder, NoId, "ok", NoFills, NoId)
    /\ nops = 0
    /\ guards = [g \in Guards |-> "free"]
    /\ thr = [p \in Threads |-> Idle]
    /\ l2_book = NewL2OrderBook

Serving == ~poisoned /\ nops < MaxOps

\* POST /accounts
new_account(t, f) ==
    /\ Serving
    /\ accounts' = Put(accounts, t, from_json(t, f))
    /\ last' = Reply("new_account", [NoOrder EXCEPT !.traderAddress = t], NoId, "ok",
                     NoFills, NoId)
    /\ nops' = nops + 1
    /\ UNCHANGED <<bid_book, ask_book, order_loc, poisoned, arrival, collided, guards, thr, l2_book>>

\* DELETE /accounts/{traderAddress}
delete_account(t) ==
    /\ Serving
    /\ accounts' = Remove(accounts, t)
    /\ last' = Reply("delete_account", [NoOrder EXCEPT !.traderAddress = t], NoId,
                     IF t \in DOMAIN accounts THEN "ok" ELSE "err", NoFills, NoId)
    /\ nops' = nops + 1
    /\ UNCHANGED <<bid_book, ask_book, order_loc, poisoned, arrival, collided, guards, thr, l2_book>>

\* what a request returned: "ok", "err" (None / Err), or the panic that ended it
Panics ==
    {"panic:validate_order", "panic:update_accounts", "panic:release_pending_fund",
     "panic:unwrap", "panic:assert_eq"}

\* POST /orders: add_order, then update_accounts on its FillResult
new_order(order, iter) ==
    /\ Serving
    /\ \E r \in {add_order(accounts, bid_book, ask_book, order_loc, order, iter)} :
       \E u \in {update_accounts(r.accounts, r.fill_result.filled_orders)} :
       \E res \in {IF r.res = "panic" THEN "panic:validate_order"
                   ELSE IF r.res = "none" THEN "err"
                   ELSE IF u.mismatch THEN "panic:assert_eq"
                   ELSE IF u.panic THEN "panic:update_accounts" ELSE "ok"} :
           /\ accounts' = IF r.res = "some" THEN u.accounts ELSE r.accounts
           /\ bid_book' = r.bid_book
           /\ ask_book' = r.ask_book
           /\ order_loc' = r.order_loc
           /\ poisoned' = (res \in Panics)
           /\ arrival' = Arrived(arrival, r.bid_book, r.ask_book, r.rested)
           /\ collided' = (collided \/ r.rested \in Resting(bid_book) \cup Resting(ask_book))
           /\ last' = Reply("new_order",
                            IF order.traderAddress \in DOMAIN accounts THEN order
                            ELSE [NoOrder EXCEPT !.traderAddress = order.traderAddress],
                            IF order.traderAddress \in DOMAIN accounts
                            THEN hash_hex(order) ELSE NoId,
                            res,
                            IF r.res = "some" THEN r.fill_result ELSE NoFills, r.rested)
    /\ nops' = nops + 1
    /\ UNCHANGED <<guards, thr, l2_book>>

\* OrderBook::cancel_order up to the call of release_pending_fund: the lookup
\* in the index, the removal from the level and from the index;
\* [res, bid_book, ask_book, order_loc, order], res is "ok", "err" or "panic:unwrap"
remove_order(bids, asks, loc, order_id) ==
    IF order_id \notin DOMAIN loc
    THEN [res |-> "err", bid_book |-> bids, ask_book |-> asks, order_loc |-> loc,
          order |-> NoOrder]
    ELSE
        LET side == loc[order_id][1]
            price_level == loc[order_id][2]
            book == BookOf(side, bids, asks)
            current_map == LevelAt(book, price_level)
        IN  IF order_id \notin DOMAIN current_map
            THEN \* current_map.remove(&order_id).unwrap() on None
                 [res |-> "panic:unwrap", bid_book |-> bids, ask_book |-> asks,
                  order_loc |-> loc, order |-> NoOrder]
            ELSE
                LET book2 == [book EXCEPT !.price_levels[price_level + 1] =
                                              Remove(@, order_id)]
                IN  [res |-> "ok",
                     bid_book |-> IF side = Bid THEN book2 ELSE bids,
                     ask_book |-> IF side = Bid THEN asks ELSE book2,
                     order_loc |-> Remove(loc, order_id),
                     order |-> current_map[order_id]]

\* OrderBook::cancel_order: [res, accounts, bid_book, ask_book, order_loc, order]
book_cancel_order(accts, bids, asks, loc, order_id) ==
    LET c == remove_order(bids, asks, loc, order_id)
        rel == release_pending_fund(accts, c.order)
    IN  IF c.res /= "ok"
        THEN [res |-> c.res, accounts |-> accts, bid_book |-> c.bid_book,
              ask_book |-> c.ask_book, order_loc |-> c.order_loc, order |-> c.order]
        ELSE [res |-> IF rel.panic THEN "panic:release_pending_fund" ELSE "ok",
              accounts |-> rel.accounts, bid_book |-> c.bid_book,
              ask_book |-> c.ask_book, order_loc |-> c.order_loc, order |-> c.order]

\* DELETE /orders/{hash}
cancel_order(order_id) ==
    /\ Serving
    /\ nops' = nops + 1
    /\ UNCHANGED <<guards, thr, l2_book>>
    /\ \E c \in {book_cancel_order(accounts, bid_book, ask_book, order_loc, order_id)} :
           /\ accounts' = c.accounts
           /\ bid_book' = c.bid_book
           /\ ask_book' = c.ask_book
           /\ order_loc' = c.order_loc
           /\ poisoned' = (c.res \in Panics)
           /\ arrival' = Arrived(arrival, c.bid_book, c.ask_book, NoId)
           /\ UNCHANGED collided
           /\ last' = Reply("cancel_order", c.order, order_id, c.res, NoFills, NoId)

\* an id no order has
AbsentId == hash_hex(NoOrder)

Next ==
    \/ \E t \in Traders, f \in Fundings : new_account(t, f)
    \/ \E t \in Traders : delete_account(t)
    \/ \E order \in Orders :
          \E iter \in Perms(CrossedIds(order, bid_book, ask_book)) : new_order(order, iter)
    \/ \E order_id \in DOMAIN order_loc \cup {AbsentId} : cancel_order(order_id)

Spec == Init /\ [][Next]_vars

\* The ledger after new_account for every trader, the book still empty; from
\* there only orders are submitted and cancelled.
InitTrading ==
    /\ accounts \in {[t \in Traders |-> from_json(t, f[t])] : f \in [Traders -> Fundings]}
    /\ bid_book = NewHalfBook
    /\ ask_book = NewHalfBook
    /\ order_loc = EmptyMap
    /\ poisoned = FALSE
    /\ arrival = <<>>
    /\ collided = FALSE
    /\ last = Reply("new_account", NoOrder, NoId, "ok", NoFills, NoId)
    /\ nops = Cardinality(Traders)
    /\ guards = [g \in Guards |-> "free"]
    /\ thr = [p \in Threads |-> Idle]
    /\ l2_book = NewL2OrderBook

NextTrading ==
    \/ \E order \in Orders :
          \E iter \in Perms(CrossedIds(order, bid_book, ask_book)) : new_order(order, iter)
    \/ \E order_id \in DOMAIN order_loc \cup {AbsentId} : cancel_order(order_id)

SpecTrading == InitTrading /\ [][NextTrading]_vars

\* ---------------------------------------------------------------- snapshot
L2_MAX == 50

\* u256_to_decimal: the amount in units of 10^-18, printed with two
\* fractional digits; here the number of hundredths, to the nearest
u256_to_decimal(from) == (from * 100 + SCALE \div 2) \div SCALE

\* the mutant of count_exhausted: the walk of a level is never cut short
never_exhausted(count) == FALSE

\* `if count <= 0 { break; }` after an entry is pushed
count_exhausted(count) == count <= 0

\* the mutant of best_bids_first: the bid prices are walked from the lowest
worst_bids_first(S) == Ascending(S)

\* bid_price_map_iter.next_back(): the bid prices from the highest down
best_bids_first(S) == Descending(S)

\* `for (_, order) in price_level`: one SimpleOrder per order, in the order
\* `keys` in which the HashMap yields them; st = [entries, ids, count].  The
\* loop pushes an entry, lowers count by one and breaks at the first entry
\* after which count is exhausted: it takes the first n keys.
WalkLevel(st, keys, price_level) ==
    LET breaks == {i \in 1..Len(keys) : count_exhausted(st.count - i)}
        n == IF breaks = {} THEN Len(keys)
             ELSE CHOOSE i \in breaks : \A j \in breaks : i <= j
        simple(i) == [amount |-> u256_to_decimal(price_level[keys[i]].amount),
                      price |-> u256_to_decimal(price_level[keys[i]].price)]
    IN  [entries |-> st.entries \o [i \in 1..n |-> simple(i)],
         ids |-> st.ids \o [i \in 1..n |-> keys[i]],
         count |-> st.count - n]

\* `while count > 0` over the prices xs of one half-book
RECURSIVE WalkSide(_, _, _, _)
WalkSide(st, xs, book, iter) ==
    IF st.count > 0 /\ xs /= <<>>
    THEN LET price_level == LevelAt(book, book.price_map[Head(xs)])
         IN  WalkSide(WalkLevel(st, Restrict(iter, DOMAIN price_level), price_level),
                      Tail(xs), book, iter)
    ELSE st

\* OrderBook::generate_l2_order_book; iter is the order in which the HashMaps
\* of the levels yield their entries
generate_l2_order_book(bids, asks, iter) ==
    LET start == [entries |-> <<>>, ids |-> <<>>, count |-> L2_MAX]
        a == WalkSide(start, Ascending(DOMAIN asks.price_map), asks, iter)
        b == WalkSide(start, best_bids_first(DOMAIN bids.price_map), bids, iter)
    IN  [asks |-> a.entries, bids |-> b.entries, ask_ids |-> a.ids, bid_ids |-> b.ids]

\* GET /book
get_book(iter) ==
    /\ Serving
    /\ l2_book' = generate_l2_order_book(bid_book, ask_book, iter)
    /\ last' = Reply("get_book", NoOrder, NoId, "ok", NoFills, NoId)
    /\ nops' = nops + 1
    /\ UNCHANGED <<accounts, bid_book, ask_book, order_loc, poisoned, arrival, collided,
                   guards, thr>>

Reverse(seq) == [i \in 1..Len(seq) |-> seq[Len(seq) + 1 - i]]

\* the orders in which the HashMaps of the levels yield the resting ids, seq
\* being those ids in the order they were inserted: every order when they
\* are few, else the order of insertion and its reverse
IterOrders(seq) ==
    IF Len(seq) <= 3 THEN Perms({seq[i] : i \in 1..Len(seq)}) ELSE {seq, Reverse(seq)}

\* ---------------------------------------------------------------- handlers
\* The handlers of main.rs step by step: each locks the Mutexes of AppState
\* it names, in the order it names them, does its work and drops the guards
\* when it returns. Two workers serve requests side by side.

\* the orders the workers are sent: one amount at one price, a bid of alice
\* and an ask of bob that crosses it
HandlerOrders ==
    {o \in Orders : /\ o.amount = 2 * ERROR
                    /\ o.price = SCALE
                    /\ (o.traderAddress = "alice" <=> o.side = Bid)}

HandlerIds == {hash_hex(o) : o \in HandlerOrders} \cup {AbsentId}

\* the positions a handler goes through
Program(op) ==
    CASE op = "new_account"    -> <<"lock_manager", "lock_user_count", "add_json_account">>
      [] op = "get_account"    -> <<"lock_manager", "get_json_account">>
      [] op = "delete_account" -> <<"lock_manager", "lock_user_count", "delete_account">>
      [] op = "new_order"      -> <<"lock_manager", "lock_order_book", "add_order",
                                    "update_accounts">>
      [] op = "get_order"      -> <<"lock_order_book", "get_order">>
      [] op = "cancel_order"   -> <<"lock_order_book", "lock_manager", "remove_order",
                                    "release_pending_fund">>
      [] op = "get_book"       -> <<"lock_order_book", "generate_l2_order_book">>

\* where worker p is in its handler
At(p) == IF thr[p].op = "none" THEN "idle" ELSE Program(thr[p].op)[thr[p].pc]

\* p is at position pos and has not panicked
Runs(p, pos) == At(p) = pos /\ ~thr[p].panicked

LockOf(pos) ==
    CASE pos = "lock_manager"    -> "manager"
      [] pos = "lock_order_book" -> "order_book"
      [] pos = "lock_user_count" -> "user_count"

\* a request as a worker takes it up
Request(op, order, id, funding) ==
    [op |-> op, pc |-> 1, order |-> order, id |-> id, funding |-> funding,
     fr |-> NoFills, rested |-> NoId, panicked |-> FALSE]

Requests ==
    {Request("new_account", [NoOrder EXCEPT !.traderAddress = t], NoId, f) :
        t \in Traders, f \in Fundings}
    \cup {Request(op, [NoOrder EXCEPT !.traderAddress = t], NoId, <<0, 0>>) :
        op \in {"get_account", "delete_account"}, t \in Traders}
    \cup {Request("new_order", o, hash_hex(o), <<0, 0>>) : o \in HandlerOrders}
    \cup {Request(op, NoOrder, id, <<0, 0>>) :
        op \in {"get_order", "cancel_order"}, id \in HandlerIds}
    \cup {Request("get_book", NoOrder, NoId, <<0, 0>>)}

\* the guards of p dropped at the end of its handler
Dropped(g, p) == [x \in Guards |-> IF g[x] = p THEN "free" ELSE g[x]]

\* the guards of p dropped while p unwinds from a panic
Poisoned(g, p) == [x \in Guards |-> IF g[x] = p THEN "poisoned" ELSE g[x]]

\* the guards of p between add_order and update_accounts, were they dropped
guards_dropped_early(g, p) == Dropped(g, p)

\* the guards of p between add_order and update_accounts: manager and
\* order_book live to the end of new_order
guards_after_add_order(g, p) == g

\* p returns res
Returns(p, res, fr, rested) ==
    /\ thr' = [thr EXCEPT ![p] = Idle]
    /\ guards' = Dropped(guards, p)
    /\ last' = Reply(thr[p].op, thr[p].order, thr[p].id, res, fr, rested)
    /\ UNCHANGED poisoned

\* p panics
Panicked(p, res) ==
    /\ thr' = [thr EXCEPT ![p].panicked = TRUE]
    /\ guards' = Poisoned(guards, p)
    /\ last' = Reply(thr[p].op, thr[p].order, thr[p].id, res, NoFills, NoId)
    /\ poisoned' = TRUE

\* p goes on to its next position
GoesOn(p, order, fr, rested, g) ==
    /\ thr' = [thr EXCEPT ![p].pc = @ + 1, ![p].order = order, ![p].fr = fr,
                          ![p].rested = rested]
    /\ guards' = g
    /\ UNCHANGED <<last, poisoned>>

\* a worker takes up a request
receive(p, req) ==
    /\ thr[p] = Idle
    /\ nops < MaxOps
    /\ thr' = [thr EXCEPT ![p] = req]
    /\ nops' = nops + 1
    /\ UNCHANGED <<accounts, bid_book, ask_book, order_loc, poisoned, arrival, collided,
                   last, guards, l2_book>>

\* data.<mutex>.lock().unwrap(): waits while another worker holds the guard,
\* panics when the Mutex is poisoned
lock(p) ==
    /\ \E pos \in {"lock_manager", "lock_order_book", "lock_user_count"} : Runs(p, pos)
    /\ \/ /\ guards[LockOf(At(p))] = "free"
          /\ GoesOn(p, thr[p].order, thr[p].fr, thr[p].rested,
                    [guards EXCEPT ![LockOf(At(p))] = p])
       \/ /\ guards[LockOf(At(p))] = "poisoned"
          /\ Panicked(p, "panic:lock")
    /\ UNCHANGED <<accounts, bid_book, ask_book, order_loc, arrival, collided, nops, l2_book>>

\* new_account: manager.add_json_account, *count += 1
handle_new_account(p) ==
    /\ Runs(p, "add_json_account")
    /\ accounts' = Put(accounts, thr[p].order.traderAddress, from_json(thr[p].order.traderAddress, thr[p].funding))
    /\ Returns(p, "ok", NoFills, NoId)
    /\ UNCHANGED <<bid_book, ask_book, order_loc, arrival, collided, nops, l2_book>>

\* get_account: manager.get_json_account
handle_get_account(p) ==
    /\ Runs(p, "get_json_account")
    /\ Returns(p, IF thr[p].order.traderAddress \in DOMAIN accounts THEN "ok" ELSE "err",
               NoFills, NoId)
    /\ UNCHANGED <<accounts, bid_book, ask_book, order_loc, arrival, collided, nops, l2_book>>

\* delete_account: manager.delete_account, *count -= 1
handle_delete_account(p) ==
    /\ Runs(p, "delete_account")
    /\ accounts' = Remove(accounts, thr[p].order.traderAddress)
    /\ Returns(p, IF thr[p].order.traderAddress \in DOMAIN accounts THEN "ok" ELSE "err",
               NoFills, NoId)
    /\ UNCHANGED <<bid_book, ask_book, order_loc, arrival, collided, nops, l2_book>>

\* new_order: order_book.add_order(&mut manager, order)
handle_add_order(p) ==
    /\ Runs(p, "add_order")
    /\ \E iter \in Perms(CrossedIds(thr[p].order, bid_book, ask_book)) :
       \E r \in {add_order(accounts, bid_book, ask_book, order_loc, thr[p].order, iter)} :
           /\ accounts' = r.accounts
           /\ bid_book' = r.bid_book
           /\ ask_book' = r.ask_book
           /\ order_loc' = r.order_loc
           /\ arrival' = Arrived(arrival, r.bid_book, r.ask_book, r.rested)
           /\ collided' = (collided \/ r.rested \in Resting(bid_book) \cup Resting(ask_book))
           /\ IF r.res = "panic" THEN Panicked(p, "panic:validate_order")
              ELSE IF r.res = "none" THEN Returns(p, "err", NoFills, NoId)
              ELSE GoesOn(p, thr[p].order, r.fill_result, r.rested,
                          guards_after_add_order(guards, p))
    /\ UNCHANGED <<nops, l2_book>>

\* new_order: manager.update_accounts(fill_result)
handle_update_accounts(p) ==
    /\ Runs(p, "update_accounts")
    /\ \E u \in {update_accounts(accounts, thr[p].fr.filled_orders)} :
           /\ accounts' = u.accounts
           /\ IF u.mismatch THEN Panicked(p, "panic:assert_eq")
              ELSE IF u.panic THEN Panicked(p, "panic:update_accounts")
              ELSE Returns(p, "ok", thr[p].fr, thr[p].rested)
    /\ UNCHANGED <<bid_book, ask_book, order_loc, arrival, collided, nops, l2_book>>

\* OrderBook::get_order: "ok", "err" or the unwrap of an id the level lacks
book_get_order(bids, asks, loc, order_id) ==
    IF order_id \notin DOMAIN loc THEN "err"
    ELSE IF order_id \in DOMAIN LevelAt(BookOf(loc[order_id][1], bids, asks),
                                        loc[order_id][2])
    THEN "ok" ELSE "panic:unwrap"

\* get_order: order_book.get_order(order_hash)
handle_get_order(p) ==
    /\ Runs(p, "get_order")
    /\ \E res \in {book_get_order(bid_book, ask_book, order_loc, thr[p].id)} :
           IF res = "panic:unwrap" THEN Panicked(p, res)
           ELSE Returns(p, res, NoFills, NoId)
    /\ UNCHANGED <<accounts, bid_book, ask_book, order_loc, arrival, collided, nops, l2_book>>

\* cancel_order: OrderBook::cancel_order up to release_pending_fund
handle_remove_order(p) ==
    /\ Runs(p, "remove_order")
    /\ \E c \in {remove_order(bid_book, ask_book, order_loc, thr[p].id)} :
           /\ bid_book' = c.bid_book
           /\ ask_book' = c.ask_book
           /\ order_loc' = c.order_loc
           /\ arrival' = Arrived(arrival, c.bid_book, c.ask_book, NoId)
           /\ IF c.res = "panic:unwrap" THEN Panicked(p, c.res)
              ELSE IF c.res = "err" THEN Returns(p, "err", NoFills, NoId)
              ELSE GoesOn(p, c.order, thr[p].fr, thr[p].rested, guards)
    /\ UNCHANGED <<accounts, collided, nops, l2_book>>

\* cancel_order: account_manager.release_pending_fund(&order)
handle_release_pending_fund(p) ==
    /\ Runs(p, "release_pending_fund")
    /\ \E rel \in {release_pending_fund(accounts, thr[p].order)} :
           /\ accounts' = rel.accounts
           /\ IF rel.panic THEN Panicked(p, "panic:release_pending_fund")
              ELSE Returns(p, "ok", NoFills, NoId)
    /\ UNCHANGED <<bid_book, ask_book, order_loc, arrival, collided, nops, l2_book>>

\* get_book: order_book.generate_l2_order_book()
handle_get_book(p) ==
    /\ Runs(p, "generate_l2_order_book")
    /\ \E iter \in IterOrders(arrival) :
           l2_book' = generate_l2_order_book(bid_book, ask_book, iter)
    /\ Returns(p, "ok", NoFills, NoId)
    /\ UNCHANGED <<accounts, bid_book, ask_book, order_loc, arrival, collided, nops>>

NextHandlers ==
    \/ \E p \in Threads, req \in Requests : receive(p, req)
    \/ \E p \in Threads : lock(p)
    \/ \E p \in Threads : handle_new_account(p)
    \/ \E p \in Threads : handle_get_account(p)
    \/ \E p \in Threads : handle_delete_account(p)
    \/ \E p \in Threads : handle_add_order(p)
    \/ \E p \in Threads : handle_update_accounts(p)
    \/ \E p \in Threads : handle_get_order(p)
    \/ \E p \in Threads : handle_remove_order(p)
    \/ \E p \in Threads : handle_release_pending_fund(p)
    \/ \E p \in Threads : handle_get_book(p)

\* from the empty ledger and book, the workers idle
SpecHandlers == Init /\ [][NextHandlers]_vars

\* ---------------------------------------------------------------- books for snapshots
\* Books to take snapshots of, as submits and cancels leave them.  Each
\* half-book has three price levels, made in an order that is not the order
\* of their prices, and Layouts says how many orders rest in each; a level
\* with none is in the book, empty.
LadderFunding == <<1000 * ERROR, 1000 * ERROR>>

LadderPrices(side) ==
    IF side = Bid THEN <<SCALE, SCALE \div 2, SCALE + SCALE \div 2>>
    ELSE <<3 * SCALE, 2 * SCALE, 4 * SCALE>>

Layouts ==
    {<<0, 0, 0>>, <<1, 0, 0>>, <<0, 2, 1>>, <<49, 0, 1>>, <<50, 0, 3>>,
     <<20, 31, 0>>, <<0, 51, 2>>, <<3, 0, 47>>}

\* the k-th order of a side laid out as c
LadderOrder(side, c, k) ==
    [amount |-> (<<2 * ERROR, 2 * ERROR + 1, 4 * ERROR>>)[(k % 3) + 1],
     nonce |-> k,
     price |-> LadderPrices(side)[IF k <= c[1] THEN 1
                                  ELSE IF k <= c[1] + c[2] THEN 2 ELSE 3],
     side |-> side,
     traderAddress |-> IF k % 2 = 1 THEN "alice" ELSE "bob"]

\* the number of orders in the layout c
Count(c) == c[1] + c[2] + c[3]

\* the orders of a side laid out as c that rest in level i
LadderLevelOrders(side, c, i) ==
    {o \in {LadderOrder(side, c, k) : k \in 1..Count(c)} : o.price = LadderPrices(side)[i]}

\* level i as create_new_limit_order fills it: the order under its hash_hex
LadderLevel(side, c, i) ==
    LET os == LadderLevelOrders(side, c, i)
    IN  [id \in {hash_hex(o) : o \in os} |-> CHOOSE o \in os : hash_hex(o) = id]

\* the half-book: price_map gives each price the place of its level in
\* price_levels
LadderBook(side, c) ==
    [price_map |-> [p \in {LadderPrices(side)[i] : i \in 1..3} |->
                       (CHOOSE i \in 1..3 : LadderPrices(side)[i] = p) - 1],
     price_levels |-> [i \in 1..3 |-> LadderLevel(side, c, i)]]

\* order_loc of the two half-books
LadderIndex(bids, asks) ==
    [id \in Resting(bids) \cup Resting(asks) |->
        <<id[4], BookOf(id[4], bids, asks).price_map[id[3]]>>]

\* the account of t after validate_order has reserved for each resting order
LadderAccount(t, bids, asks) ==
    LET mine(book) == {id \in Resting(book) : id[5] = t}
        ddx == SumOver(mine(asks), [id \in mine(asks) |-> id[1]])
        usd == SumOver(mine(bids), [id \in mine(bids) |-> Notional(id[1], id[3])])
    IN  [ddx_balance |-> LadderFunding[1] - ddx, ddx_hold |-> ddx,
         usd_balance |-> LadderFunding[2] - usd, usd_hold |-> usd,
         trader_address |-> t]

InitSnapshot ==
    \E cb \in Layouts, ca \in Layouts :
    \E bids \in {LadderBook(Bid, cb)}, asks \in {LadderBook(Ask, ca)} :
        /\ accounts = [t \in Traders |-> LadderAccount(t, bids, asks)]
        /\ bid_book = bids
        /\ ask_book = asks
        /\ order_loc = LadderIndex(bids, asks)
        /\ poisoned = FALSE
        /\ arrival = [k \in 1..Count(cb) |-> hash_hex(LadderOrder(Bid, cb, k))]
                     \o [k \in 1..Count(ca) |-> hash_hex(LadderOrder(Ask, ca, k))]
        /\ collided = FALSE
        /\ last = Reply("new_order", NoOrder, NoId, "ok", NoFills, NoId)
        /\ nops = 0
        /\ guards = [g \in Guards |-> "free"]
        /\ thr = [p \in Threads |-> Idle]
        /\ l2_book = NewL2OrderBook

NextSnapshot ==
    \E iter \in IterOrders(arrival) : get_book(iter)

\* snapshots of the laid-out books, one after the other
SpecSnapshot == InitSnapshot /\ [][NextSnapshot]_vars

\* ---------------------------------------------------------------- dust orders
\* Orders whose amount is at the tolerance: `fill_result.remaining >
\* U256::from(ERROR)` is false for them before anything is matched.
DustAmounts == {ERROR, 2 * ERROR}

DustOrders ==
    [amount : DustAmounts, nonce : Nonces, price : Prices, side : {Bid, Ask},
     traderAddress : Traders]

NextDust ==
    \/ \E order \in DustOrders :
          \E iter \in Perms(CrossedIds(order, bid_book, ask_book)) : new_order(order, iter)
    \/ \E order_id \in DOMAIN order_loc \cup {AbsentId} : cancel_order(order_id)

SpecDust == InitTrading /\ [][NextDust]_vars

\* ---------------------------------------------------------------- untracked traders
\* From the funded ledger, orders are submitted and accounts are deleted:
\* the orders of a deleted account stay on the book (delete_account does not
\* look at it) and later submits are matched against them.
NextUntracked ==
    \/ \E t \in Traders : delete_account(t)
    \/ \E order \in Orders :
          \E iter \in Perms(CrossedIds(order, bid_book, ask_book)) : new_order(order, iter)

SpecUntracked == InitTrading /\ [][NextUntracked]_vars

\* ---------------------------------------------------------------- reading a state
\* the order stored under id in the levels of book
OrderIn(book, id) ==
    LET i == CHOOSE k \in 1..Len(book.price_levels) : id \in DOMAIN book.price_levels[k]
    IN  book.price_levels[i][id]

\* the (side, level) places that hold an order under id
Holders(id) ==
    {h \in ({Bid} \X (1..Len(bid_book.price_levels)))
             \cup ({Ask} \X (1..Len(ask_book.price_levels))) :
        id \in DOMAIN BookOf(h[1], bid_book, ask_book).price_levels[h[2]]}

\* the ids of the orders of trader t resting in book
RestingOf(book, t) == {id \in Resting(book) : OrderIn(book, id).traderAddress = t}

AskAmounts(t) ==
    SumOver(RestingOf(ask_book, t),
            [id \in Resting(ask_book) |-> OrderIn(ask_book, id).amount])

BidNotionals(t) ==
    SumOver(RestingOf(bid_book, t),
            [id \in Resting(bid_book) |->
                Notional(OrderIn(bid_book, id).amount, OrderIn(bid_book, id).price)])

TotalDdx == SumOver(DOMAIN accounts, [t \in DOMAIN accounts |-> total_ddx(accounts[t])])

TotalUsd == SumOver(DOMAIN accounts, [t \in DOMAIN accounts |-> total_usd(accounts[t])])

\* this step is a POST /orders that was admitted and matched against the book
Matched ==
    /\ nops' = nops + 1
    /\ last'.op = "new_order"
    /\ last'.res \in {"ok", "panic:update_accounts"}

\* a is inserted before b
Before(a, b) ==
    \E i, j \in 1..Len(arrival) : i < j /\ arrival[i] = a /\ arrival[j] = b

\* what the fills before the j-th took from the resting order id
FilledBefore(fills, id, j) ==
    SumOver({i \in 1..(j - 1) : fills[i].taker_hash = id},
            [i \in 1..Len(fills) |-> fills[i].fill_amount])

\* x is a strictly better price than y for an aggressor of this side
Better(side, x, y) == IF side = Bid THEN x < y ELSE x > y

\* ---------------------------------------------------------------- claims

\* C1: an order id is in the index (order_loc) if and only if an order keyed by
\* that id is present in exactly one price level, of the side the index names.
C1_IndexCoherence ==
    ~poisoned =>
        \A id \in (DOMAIN order_loc) \cup Resting(bid_book) \cup Resting(ask_book) :
            (id \in DOMAIN order_loc) <=>
                /\ Cardinality(Holders(id)) = 1
                /\ id \in DOMAIN order_loc =>
                       \A h \in Holders(id) :
                           h[1] = order_loc[id][1] /\ h[2] = order_loc[id][2] + 1

C3_PricePriority ==
    [][Matched =>
        LET o == last'.order
            opp == BookOf(1 - o.side, bid_book, ask_book)
            fills == last'.filled_orders
        IN  \A j \in 1..Len(fills) :
                /\ Crosses(o.side, o.price, fills[j].price)
                /\ \A a \in Resting(opp) :
                       ( /\ OrderIn(opp, a).traderAddress /= o.traderAddress
                         /\ Crosses(o.side, o.price, OrderIn(opp, a).price)
                         /\ Better(o.side, OrderIn(opp, a).price, fills[j].price) )
                       => OrderIn(opp, a).amount - FilledBefore(fills, a, j) <= ERROR
    ]_vars

\* C4: every fill emitted by a submit carries the price of the resting order it
\* consumed, for bid and for ask aggressors.
C4_MakerPrice ==
    [][Matched =>
        LET o == last'.order
            opp == BookOf(1 - o.side, bid_book, ask_book)
            fills == last'.filled_orders
        IN  \A j \in 1..Len(fills) :
                /\ fills[j].taker_hash \in Resting(opp)
                /\ fills[j].price = OrderIn(opp, fills[j].taker_hash).price
    ]_vars

\* a submit was filled at a price that is not its own limit price
C4_Witness ==
    /\ last.op = "new_order"
    /\ last.res = "ok"
    /\ \E j \in 1..Len(last.filled_orders) :
           /\ last.filled_orders[j].fill_amount > ERROR
           /\ last.filled_orders[j].price /= last.order.price

\* the resting orders of trader t on side s, the ids in `but` excepted, are after
\* the step what they were before it: amount, level and index entry
OwnUnchanged(t, s, but) ==
    \A id \in RestingOf(BookOf(s, bid_book, ask_book), t) \ but :
        /\ id \in Resting(BookOf(s, bid_book', ask_book'))
        /\ OrderIn(BookOf(s, bid_book', ask_book'), id)
               = OrderIn(BookOf(s, bid_book, ask_book), id)
        /\ (id \in DOMAIN order_loc) = (id \in DOMAIN order_loc')
        /\ id \in DOMAIN order_loc => order_loc'[id] = order_loc[id]

\* no fill of the step is a self-match, and the skip does not end the matching:
\* a submit that ends with a remainder has rested it and has left no crossing
\* order of another trader in the book
SkipsAndGoesOn ==
    LET o == last'.order
        t == o.traderAddress
        fills == last'.filled_orders
        opp2 == BookOf(1 - o.side, bid_book', ask_book')
    IN  /\ \A j \in 1..Len(fills) : fills[j].from /= fills[j].to
        /\ last'.remaining > ERROR =>
               /\ last'.rested \in Resting(BookOf(o.side, bid_book', ask_book'))
               /\ last'.rested \in DOMAIN order_loc'
               /\ \A id \in Resting(opp2) :
                      OrderIn(opp2, id).traderAddress /= t
                      => ~Crosses(o.side, o.price, OrderIn(opp2, id).price)

C6_HoldsCoverResting ==
    ~poisoned =>
        \A t \in DOMAIN accounts :
            /\ accounts[t].ddx_hold >= AskAmounts(t)
            /\ accounts[t].usd_hold >= BidNotionals(t)

\* C7: for every trader, usd_hold equals the sum of the notionals of its
\* resting bids up to ERROR (as long as no two orders were given the same id).
C7_NoStrandedUsdHold ==
    (~poisoned /\ ~collided) =>
        \A t \in DOMAIN accounts :
            /\ accounts[t].usd_hold <= BidNotionals(t) + ERROR
            /\ BidNotionals(t) <= accounts[t].usd_hold + ERROR

\* C8: for every trader, ddx_hold equals the sum of the amounts of its resting
\* asks.
C8_ExactDdxHold ==
    ~poisoned =>
        \A t \in DOMAIN accounts : accounts[t].ddx_hold = AskAmounts(t)

\* C9: with no account created or deleted, no submit and no cancel changes the
\* sum over all accounts of ddx_free + ddx_hold, nor that of usd_free + usd_hold.
C9_Conservation ==
    [][TotalDdx' = TotalDdx /\ TotalUsd' = TotalUsd]_vars

\* a submit was filled against another trader's order and settled
C9_Witness ==
    /\ last.op = "new_order"
    /\ last.res = "ok"
    /\ \E j \in 1..Len(last.filled_orders) :
           /\ last.filled_orders[j].fill_amount > ERROR
           /\ last.filled_orders[j].price /= SCALE
           /\ last.filled_orders[j].from \in DOMAIN accounts
           /\ last.filled_orders[j].to \in DOMAIN accounts

\* C10: for a known trader, reserve admits an order exactly when its cost (the
\* notional of a bid, the amount of an ask) is at most ERROR + the free balance,
\* and every admitted reserve completes without aborting, moving exactly the
\* cost from free to hold.
C10_ReserveAdmission ==
    [][(/\ nops' = nops + 1
        /\ last'.op = "new_order"
        /\ last'.order.traderAddress \in DOMAIN accounts) =>
        LET o == last'.order
            t == o.traderAddress
            a == accounts[t]
            d == IF o.side = Bid THEN Notional(o.amount, o.price) ELSE o.amount
            free == IF o.side = Bid THEN a.usd_balance ELSE a.ddx_balance
            v == validate_order(accounts, o)
        IN  /\ (last'.res /= "err") <=> (d <= ERROR + free)
            /\ d <= ERROR + free =>
                   /\ last'.res /= "panic:validate_order"
                   /\ v.res = "some"
                   /\ v.accounts[t] =
                          IF o.side = Bid
                          THEN [a EXCEPT !.usd_balance = a.usd_balance - d,
                                         !.usd_hold = a.usd_hold + d]
                          ELSE [a EXCEPT !.ddx_balance = a.ddx_balance - d,
                                         !.ddx_hold = a.ddx_hold + d]
                   /\ v.accounts[t].usd_balance >= 0
                   /\ v.accounts[t].ddx_balance >= 0
    ]_vars

\* C11: a submit by an unknown trader, or one whose cost exceeds the free
\* balance by more than ERROR, returns no FillResult and leaves every account
\* balance, both half-books and the index as they were.
C11_RejectedSubmit ==
    [][(nops' = nops + 1 /\ last'.op = "new_order") =>
        LET t == last'.order.traderAddress
            o == last'.order
            d == IF o.side = Bid THEN Notional(o.amount, o.price) ELSE o.amount
            free == IF o.side = Bid THEN accounts[t].usd_balance
                    ELSE accounts[t].ddx_balance
        IN  /\ (t \notin DOMAIN accounts \/ d > ERROR + free) => last'.res = "err"
            /\ last'.res = "err" =>
                   /\ last'.filled_orders = <<>>
                   /\ last'.rested = NoId
                   /\ accounts' = accounts
                   /\ bid_book' = bid_book
                   /\ ask_book' = ask_book
                   /\ order_loc' = order_loc
    ]_vars

\* a submit of a trader with resting orders was rejected for its cost
C11_Witness ==
    /\ last.op = "new_order"
    /\ last.res = "err"
    /\ last.order.traderAddress \in DOMAIN accounts
    /\ order_loc /= EmptyMap

\* a submit of an unknown trader was rejected while orders were resting
C11_WitnessUnknown ==
    /\ last.op = "new_order"
    /\ last.res = "err"
    /\ last.order.traderAddress \notin DOMAIN accounts
    /\ order_loc /= EmptyMap

\* the orders resting in the two half-books, each with its side and its id
RestingOrders(bids, asks) ==
    {<<Bid, id, OrderIn(bids, id)>> : id \in Resting(bids)}
        \cup {<<Ask, id, OrderIn(asks, id)>> : id \in Resting(asks)}

\* in a state where a request is served: submit o and, if it rests whole with
\* no fill, cancel the id of o; Then(r, c) is asked of the two results
SubmitThenCancel(Then(_, _)) ==
    Serving =>
        \A o \in Orders :
            \A iter \in Perms(CrossedIds(o, bid_book, ask_book)) :
                \A r \in {add_order(accounts, bid_book, ask_book, order_loc, o, iter)} :
                    ( /\ r.res = "some"
                      /\ r.fill_result.filled_orders = <<>>
                      /\ r.fill_result.remaining = o.amount
                      /\ r.rested = hash_hex(o) )
                    => \A u \in {update_accounts(r.accounts,
                                                 r.fill_result.filled_orders)} :
                       \A c \in {book_cancel_order(u.accounts, r.bid_book, r.ask_book,
                                                   r.order_loc, hash_hex(o))} :
                           Then(r, c)

C13_Cancel ==
    [][(nops' = nops + 1 /\ last'.op = "cancel_order") =>
        LET id == last'.id
            o == last'.order
            t == o.traderAddress
            d == IF o.side = Bid THEN Notional(o.amount, o.price) ELSE o.amount
        IN  /\ id \notin DOMAIN order_loc =>
                   /\ last'.res = "err"
                   /\ accounts' = accounts
                   /\ bid_book' = bid_book
                   /\ ask_book' = ask_book
                   /\ order_loc' = order_loc
            /\ id \in DOMAIN order_loc =>
                   /\ last'.res = "ok"
                   /\ order_loc' = Remove(order_loc, id)
                   /\ <<order_loc[id][1], id, o>> \in RestingOrders(bid_book, ask_book)
                   /\ RestingOrders(bid_book', ask_book')
                          = RestingOrders(bid_book, ask_book) \ {<<order_loc[id][1], id, o>>}
                   /\ t \in DOMAIN accounts =>
                          accounts' =
                              [accounts EXCEPT ![t] =
                                  IF o.side = Bid
                                  THEN [@ EXCEPT !.usd_balance = @ + d, !.usd_hold = @ - d]
                                  ELSE [@ EXCEPT !.ddx_balance = @ + d, !.ddx_hold = @ - d]]
    ]_vars

\* C14: when a submit ends with remaining > ERROR, the index contains the id
\* of the submitted order (the id its fills report as maker_hash), and the
\* order under that id has amount = remaining and the price, side and trader
\* of the submitted order, whether or not the submit produced fills.
C14_RemainderId ==
    [][(Matched /\ last'.remaining > ERROR) =>
        LET o == last'.order
            id == hash_hex(o)
            own == BookOf(o.side, bid_book', ask_book')
        IN  /\ \A j \in 1..Len(last'.filled_orders) :
                   last'.filled_orders[j].maker_hash = id
            /\ id \in DOMAIN order_loc'
            /\ order_loc'[id][1] = o.side
            /\ id \in DOMAIN LevelAt(own, order_loc'[id][2])
            /\ LevelAt(own, order_loc'[id][2])[id]
                   = [o EXCEPT !.amount = last'.remaining]
    ]_vars

\* this step is a submit that returned a FillResult with status PartiallyFilled
ReturnsPartiallyFilled ==
    /\ nops' = nops + 1
    /\ last'.op = "new_order"
    /\ last'.res = "ok"
    /\ last'.status = "PartiallyFilled"

\* after the step the residual of the submit rests: an order of the submit's
\* price, side and trader with amount = remaining, in a level and in the index
ResidualRests ==
    LET o == last'.order
        own == BookOf(o.side, bid_book', ask_book')
        id == last'.rested
    IN  /\ id \in DOMAIN order_loc'
        /\ order_loc'[id][1] = o.side
        /\ id \in DOMAIN LevelAt(own, order_loc'[id][2])
        /\ LevelAt(own, order_loc'[id][2])[id] = [o EXCEPT !.amount = last'.remaining]
        /\ last'.remaining > ERROR

\* before the step an order of another trader rests at a price that crosses
\* the submitted order's
CrossesAnother ==
    LET o == last'.order
        opp == BookOf(1 - o.side, bid_book, ask_book)
    IN  \E id \in Resting(opp) :
            /\ OrderIn(opp, id).traderAddress /= o.traderAddress
            /\ Crosses(o.side, o.price, OrderIn(opp, id).price)

\* C15 (as stated): every FillResult returned by submit with status
\* PartiallyFilled has a non-empty list of fills and its residual is resting in
\* the book.
C15_AsStated ==
    [][ReturnsPartiallyFilled =>
        (last'.filled_orders /= <<>> /\ ResidualRests)]_vars

\* C15 (amended): every FillResult returned by submit with status
\* PartiallyFilled has its residual resting in the book, and its list of fills
\* is non-empty exactly when the book held an order of another trader at a
\* crossing price.
C15_PartiallyFilled ==
    [][ReturnsPartiallyFilled =>
        /\ ResidualRests
        /\ (last'.filled_orders /= <<>>) <=> CrossesAnother]_vars

\* a submit was filled in part and returned PartiallyFilled
C15_Witness ==
    /\ last.op = "new_order"
    /\ last.res = "ok"
    /\ last.status = "PartiallyFilled"
    /\ \E j \in 1..Len(last.filled_orders) : last.filled_orders[j].fill_amount > ERROR
    /\ last.rested \in DOMAIN order_loc

\* what the submit has left before its j-th fill
RemainingBefore(o, fills, j) ==
    o.amount - SumOver(1..(j - 1), [i \in 1..Len(fills) |-> fills[i].fill_amount])

\* C16: once remaining <= ERROR the submit emits no further fill, at the
\* current level or at a further crossed level: every fill of a FillResult is
\* produced while more than ERROR remains, and none has amount zero.
C16_CrossingStops ==
    [][Matched =>
        LET o == last'.order
            fills == last'.filled_orders
        IN  \A j \in 1..Len(fills) :
                /\ RemainingBefore(o, fills, j) > ERROR
                /\ fills[j].fill_amount > 0
    ]_vars

\* C17: each fill amount is the smaller of the resting order's amount and the
\* submit's remaining amount before the fill; the resting order is left with
\* its amount less the fill (or is dropped, when that is at most ERROR); and
\* the fill amounts and the returned remaining add up to the submitted amount.
C17_QuantityAccounting ==
    [][Matched =>
        LET o == last'.order
            opp == BookOf(1 - o.side, bid_book, ask_book)
            opp2 == BookOf(1 - o.side, bid_book', ask_book')
            fills == last'.filled_orders
            amounts == [i \in 1..Len(fills) |-> fills[i].fill_amount]
            Taken(a) == SumOver({i \in 1..Len(fills) : fills[i].taker_hash = a}, amounts)
        IN  /\ \A j \in 1..Len(fills) :
                   /\ fills[j].taker_hash \in Resting(opp)
                   /\ fills[j].fill_amount =
                          Min({OrderIn(opp, fills[j].taker_hash).amount
                                   - FilledBefore(fills, fills[j].taker_hash, j),
                               RemainingBefore(o, fills, j)})
            /\ \A a \in Resting(opp) :
                   IF a \in Resting(opp2)
                   THEN OrderIn(opp2, a).amount = OrderIn(opp, a).amount - Taken(a)
                   ELSE OrderIn(opp, a).amount - Taken(a) <= ERROR
            /\ SumOver(1..Len(fills), amounts) + last'.remaining = o.amount
    ]_vars

\* a submit took a part of one resting order after the whole of another
C17_Witness ==
    /\ last.op = "new_order"
    /\ last.res = "ok"
    /\ Len(last.filled_orders) >= 2
    /\ \A j \in 1..Len(last.filled_orders) : last.filled_orders[j].fill_amount > ERROR
    /\ \E id \in Resting(BookOf(1 - last.order.side, bid_book, ask_book)) :
           \E j \in 1..Len(last.filled_orders) : last.filled_orders[j].taker_hash = id

\* C20: whenever the release of a cancel or the settle of a submit finds a hold
\* smaller than the quantity to remove and aborts, the book, the index and the
\* ledger are as they were before that operation began.
C20_NoHalfApplied ==
    [][(/\ nops' = nops + 1
        /\ last'.res \in {"panic:release_pending_fund", "panic:update_accounts"}) =>
        /\ accounts' = accounts
        /\ bid_book' = bid_book
        /\ ask_book' = ask_book
        /\ order_loc' = order_loc
    ]_vars

\* p waits for a guard that q holds
WaitsFor(p, q) ==
    /\ \E pos \in {"lock_manager", "lock_order_book", "lock_user_count"} : Runs(p, pos)
    /\ guards[LockOf(At(p))] = q

\* C18: no reachable state has two handlers that each hold one of the manager
\* and order_book guards and wait for the guard the other holds, so every
\* started request can still run to completion.
C18_DeadlockFreedom ==
    \A p \in Threads : \A q \in Threads \ {p} : ~(WaitsFor(p, q) /\ WaitsFor(q, p))

\* p is between the first and the last state change of a submit or a cancel,
\* whether it goes on or has panicked there
Between(p) == At(p) \in {"update_accounts", "release_pending_fund"}

\* p is past its locks, at a position that reads or changes the ledger or the book
Accesses(p) ==
    Runs(p, "add_json_account") \/ Runs(p, "get_json_account")
    \/ Runs(p, "delete_account") \/ Runs(p, "add_order") \/ Runs(p, "update_accounts")
    \/ Runs(p, "get_order") \/ Runs(p, "remove_order")
    \/ Runs(p, "release_pending_fund") \/ Runs(p, "generate_l2_order_book")

\* C19: no handler is at a position that reads or changes the ledger or the
\* book while another handler is between the first and the last state change
\* of a submit or of a cancel, a panicked one included: what a read observes,
\* each earlier operation has fully done or not done at all.
C19_AtomicVisibility ==
    \A p \in Threads : \A q \in Threads \ {p} : Accesses(q) => ~Between(p)

\* a worker waits for a guard while the other is between the state changes
\* of a submit
C19_Witness ==
    \E p \in Threads : \E q \in Threads \ {p} :
        /\ Runs(p, "update_accounts")
        /\ thr[p].fr.filled_orders /= <<>>
        /\ thr[q].op \in {"get_account", "get_order", "get_book"}
        /\ WaitsFor(q, p)

\* a read panics at its lock after a cancel has panicked between its state changes
C19_WitnessAborted ==
    \E p \in Threads : \E q \in Threads \ {p} :
        /\ At(p) = "release_pending_fund" /\ thr[p].panicked
        /\ thr[q].op \in {"get_account", "get_order", "get_book"}
        /\ thr[q].panicked

\* C21: in every reachable state the trader of every resting order is an
\* account of the ledger (an account is deleted only when no resting order
\* references it).
C21_RestingTradersTracked ==
    \A ro \in RestingOrders(bid_book, ask_book) : ro[3].traderAddress \in DOMAIN accounts

\* C22: a create for a trader whose account already reports exactly the
\* balances of the request (total DDX and total USD, as to_json reports them)
\* leaves that account's free and held amounts of both assets unchanged, also
\* when the trader has resting orders.
C22_CreateIdempotent ==
    [][
        \A t \in Traders, f \in Fundings :
            (/\ new_account(t, f)
             /\ t \in DOMAIN accounts
             /\ total_ddx(accounts[t]) = f[1]
             /\ total_usd(accounts[t]) = f[2])
            => accounts' = accounts
    ]_vars

\* id is in the index loc and the level the index gives for it holds an order
\* under it
Names(bids, asks, loc, id) ==
    /\ id \in DOMAIN loc
    /\ id \in DOMAIN LevelAt(BookOf(loc[id][1], bids, asks), loc[id][2])

\* the order that id names
Named(bids, asks, loc, id) == LevelAt(BookOf(loc[id][1], bids, asks), loc[id][2])[id]

\* across one operation: every id that stays in the index and names an order
\* before and after keeps price, side, trader and nonce, and its amount does
\* not go up unless Excepted(id)
StaysAsCreated(Excepted(_)) ==
    \A id \in DOMAIN order_loc \cap DOMAIN order_loc' :
        (Names(bid_book, ask_book, order_loc, id)
         /\ Names(bid_book', ask_book', order_loc', id))
        => LET o == Named(bid_book, ask_book, order_loc, id)
               n == Named(bid_book', ask_book', order_loc', id)
           IN  /\ n.price = o.price
               /\ n.side = o.side
               /\ n.traderAddress = o.traderAddress
               /\ n.nonce = o.nonce
               /\ (n.amount <= o.amount \/ Excepted(id))

NeverExcepted(id) == FALSE

\* the step is a submit that rests an order under id
RestedAgain(id) == last'.op = "new_order" /\ last'.rested = id

C24_RestingAboveDust ==
    \A ro \in RestingOrders(bid_book, ask_book) : ro[3].amount > ERROR

\* a submit has just filled a resting order in part, leaving it a residue of
\* at most ERROR, and that order is in no level
C24_Witness ==
    /\ last.op = "new_order"
    /\ \E i \in 1..Len(last.filled_orders) :
          LET f == last.filled_orders[i] IN
          /\ f.fill_amount < f.taker_hash[1]
          /\ f.taker_hash[1] - f.fill_amount <= ERROR
          /\ f.taker_hash \notin Resting(bid_book) \cup Resting(ask_book)

\* C25: a snapshot has at most L2_MAX ask entries and at most L2_MAX bid
\* entries, however many orders and price levels rest in the book.
C25_L2Cap == Len(l2_book.asks) <= L2_MAX /\ Len(l2_book.bids) <= L2_MAX

\* a snapshot of a book with more than L2_MAX asks and more than L2_MAX bids
\* has been returned
C25_Witness ==
    /\ last.op = "get_book"
    /\ Cardinality(Resting(ask_book)) > L2_MAX /\ Len(l2_book.asks) = L2_MAX
    /\ Cardinality(Resting(bid_book)) > L2_MAX /\ Len(l2_book.bids) = L2_MAX

\* the entries of one side of a snapshot, made from the orders ids of book:
\* as many as rest up to L2_MAX, one per resting order with that order's
\* amount and price, best price first, and no order left out has a strictly
\* better price than one that is in
SideContent(entries, ids, book, side) ==
    /\ Len(entries) = Min({L2_MAX, Cardinality(Resting(book))})
    /\ Len(ids) = Len(entries)
    /\ \A i \in 1..Len(ids) :
          /\ ids[i] \in Resting(book)
          /\ entries[i] = [amount |-> u256_to_decimal(OrderIn(book, ids[i]).amount),
                           price |-> u256_to_decimal(OrderIn(book, ids[i]).price)]
          /\ \A j \in (i + 1)..Len(ids) :
                /\ ids[i] /= ids[j]
                /\ IF side = Ask THEN entries[i].price <= entries[j].price
                   ELSE entries[i].price >= entries[j].price
          /\ \A id \in Resting(book) \ {ids[j] : j \in 1..Len(ids)} :
                IF side = Ask THEN OrderIn(book, id).price >= OrderIn(book, ids[i]).price
                ELSE OrderIn(book, id).price <= OrderIn(book, ids[i]).price

\* C26: a snapshot lists the asks by non-decreasing price and the bids by
\* non-increasing price, one entry per resting order with that order's own
\* amount and price, min(L2_MAX, resting orders of the side) entries, no
\* omitted order having a strictly better price than an included one; and
\* taking it changes neither the book nor the ledger.
C26_L2Content ==
    /\ [](last.op = "get_book" =>
            /\ SideContent(l2_book.asks, l2_book.ask_ids, ask_book, Ask)
            /\ SideContent(l2_book.bids, l2_book.bid_ids, bid_book, Bid))
    /\ [][last'.op = "get_book" =>
            UNCHANGED <<accounts, bid_book, ask_book, order_loc>>]_vars

\* a snapshot has been returned that leaves out asks and bids, and has
\* entries at more than one price on each side
C26_Witness ==
    /\ last.op = "get_book"
    /\ Cardinality(Resting(ask_book)) > Len(l2_book.asks)
    /\ Cardinality(Resting(bid_book)) > Len(l2_book.bids)
    /\ l2_book.asks[1].price < l2_book.asks[Len(l2_book.asks)].price
    /\ l2_book.bids[1].price > l2_book.bids[Len(l2_book.bids)].price

\* C27: in every fill of a submit, the maker hash is the id of a resting
\* order that was on the book before the submit and was consumed by the fill,
\* and the taker hash is the id of the submitted order.
C27_MakerTaker ==
    [][
        Matched =>
            \A i \in 1..Len(last'.filled_orders) :
                LET f == last'.filled_orders[i] IN
                /\ f.maker_hash \in Resting(bid_book) \cup Resting(ask_book)
                /\ f.taker_hash = hash_hex(last'.order)
    ]_vars

\* this step is a POST /orders that validate_order admitted, whatever became
\* of its settlement
Admitted ==
    /\ nops' = nops + 1
    /\ last'.op = "new_order"
    /\ last'.res \in {"ok", "panic:update_accounts", "panic:assert_eq"}

\* the order that rested on the book before the step and that the fill f
\* consumed: match_at_price_level records its key as taker_hash
RestingOrderOf(f) ==
    OrderIn(BookOf(IF last'.order.side = Bid THEN Ask ELSE Bid, bid_book, ask_book),
            f.taker_hash)

\* the fills of the step that name t as seller (Ask) or as buyer (Bid)
FillsOf(t, side) ==
    {i \in 1..Len(last'.filled_orders) :
        IF side = Ask THEN last'.filled_orders[i].from = t
        ELSE last'.filled_orders[i].to = t}

\* what validate_order put on hold for the submitted order in the account of t
ReservedDdx(t) ==
    IF t = last'.order.traderAddress /\ last'.order.side = Ask
    THEN last'.order.amount ELSE 0

ReservedUsd(t) ==
    IF t = last'.order.traderAddress /\ last'.order.side = Bid
    THEN Notional(last'.order.amount, last'.order.price) ELSE 0

\* C28: in every fill, from is the trader of the ask-side order and to is the
\* trader of the bid-side order, whichever of the two is the aggressor; the
\* settlement therefore debits the DDX hold of the seller and the USD hold of
\* the buyer, and the assertion on the trader address never fails.
C28_FillDirection ==
    [][
        Admitted =>
            /\ last'.res /= "panic:assert_eq"
            /\ \A i \in 1..Len(last'.filled_orders) :
                   LET f == last'.filled_orders[i]
                       resting == RestingOrderOf(f)
                       ask_order == IF last'.order.side = Ask THEN last'.order ELSE resting
                       bid_order == IF last'.order.side = Bid THEN last'.order ELSE resting
                   IN  /\ ask_order.side = Ask
                       /\ bid_order.side = Bid
                       /\ f.from = ask_order.traderAddress
                       /\ f.to = bid_order.traderAddress
            /\ last'.res = "ok" =>
                   \A t \in DOMAIN accounts' :
                       LET sold == FillsOf(t, Ask)
                           bought == FillsOf(t, Bid)
                       IN  /\ accounts'[t].ddx_hold =
                                  accounts[t].ddx_hold + ReservedDdx(t)
                                  - SumOver(sold, [i \in sold |->
                                        last'.filled_orders[i].fill_amount])
                           /\ accounts'[t].usd_hold =
                                  accounts[t].usd_hold + ReservedUsd(t)
                                  - SumOver(bought, [i \in bought |->
                                        Notional(last'.filled_orders[i].fill_amount,
                                                 last'.filled_orders[i].price)])
    ]_vars

\* a submitted ask was matched against a resting bid and settled
C28_Witness ==
    /\ last.op = "new_order"
    /\ last.res = "ok"
    /\ last.order.side = Ask
    /\ last.filled_orders /= <<>>
    /\ accounts[last.order.traderAddress].usd_balance > 0

\* a submitted bid was matched against a resting ask and settled
C28_WitnessBid ==
    /\ last.op = "new_order"
    /\ last.res = "ok"
    /\ last.order.side = Bid
    /\ last.filled_orders /= <<>>

\* C30: when a fill of a submit leaves of a resting order an amount that is at
\* most ERROR, zero or a residue of a partial fill, then after the submit the
\* order's id is no longer in the index and the order is no longer on its level.
C30_DustRemoval ==
    [][
        Admitted =>
            \A i \in 1..Len(last'.filled_orders) :
                LET f == last'.filled_orders[i]
                    side == IF last'.order.side = Bid THEN Ask ELSE Bid
                    left == RestingOrderOf(f).amount - f.fill_amount
                IN  left <= ERROR =>
                        /\ f.taker_hash \notin DOMAIN order_loc'
                        /\ f.taker_hash \notin Resting(BookOf(side, bid_book', ask_book'))
    ]_vars

\* C31: in every reachable state get(id) answers with the resting order when
\* id is in the index and with the not-found error when it is not; it never
\* aborts.  (get_order takes &self: it assigns to nothing.)
C31_GetTotal ==
    \A order_id \in DOMAIN order_loc \cup {AbsentId} :
        book_get_order(bid_book, ask_book, order_loc, order_id) =
            IF order_id \in DOMAIN order_loc THEN "ok" ELSE "err"

\* the best price of the orders resting on the side opposite to order does
\* not cross order's price, or nothing rests there
NonCrossing(order) ==
    \A id \in Resting(BookOf(1 - order.side, bid_book, ask_book)) :
        ~Crosses(order.side, order.price,
                 OrderIn(BookOf(1 - order.side, bid_book, ask_book), id).price)

\* what validate_order moves from the free balance to the hold for order
ReserveOf(a, order) ==
    IF order.side = Bid
    THEN [a EXCEPT !.usd_balance = @ - Notional(order.amount, order.price),
                   !.usd_hold = @ + Notional(order.amount, order.price)]
    ELSE [a EXCEPT !.ddx_balance = @ - order.amount,
                   !.ddx_hold = @ + order.amount]

\* the step is a funded submit that does not cross: it returns no fills, the
\* ledger changes by the reserve in the submitter's account only, and every
\* order that rested under another id rests unchanged where it was
ReserveOnly ==
    LET order == last'.order
        id == hash_hex(order)
        before == Resting(bid_book) \cup Resting(ask_book)
    IN  /\ last'.filled_orders = <<>>
        /\ accounts' = [accounts EXCEPT ![order.traderAddress] = ReserveOf(@, order)]
        /\ \A other \in before \ {id} :
               /\ other \in DOMAIN order_loc <=> other \in DOMAIN order_loc'
               /\ other \in DOMAIN order_loc => order_loc'[other] = order_loc[other]
               /\ other \in Resting(BookOf(other[4], bid_book', ask_book'))
               /\ OrderIn(BookOf(other[4], bid_book', ask_book'), other) =
                      OrderIn(BookOf(other[4], bid_book, ask_book), other)

\* the whole amount of the submitted order rests under its id after the step
RestsWhole ==
    LET order == last'.order
        id == hash_hex(order)
    IN  /\ last'.rested = id
        /\ id \in DOMAIN order_loc' /\ order_loc'[id][1] = order.side
        /\ id \in Resting(BookOf(order.side, bid_book', ask_book'))
        /\ OrderIn(BookOf(order.side, bid_book', ask_book'), id) = order

C32_WitnessDust ==
    /\ last.op = "new_order" /\ last.res = "ok"
    /\ last.order.amount <= ERROR
    /\ last.filled_orders = <<>>
    /\ last.rested = NoId
    /\ accounts[last.order.traderAddress].usd_hold + accounts[last.order.traderAddress].ddx_hold > 0

\* the half-book of the submitted order's side before and after the step
OwnBefore == BookOf(last'.order.side, bid_book, ask_book)

OwnAfter == BookOf(last'.order.side, bid_book', ask_book')

\* the remainder of the submitted order rests after the step, under the id
\* create_new_limit_order derives from the order with the remaining amount
RemainderRested ==
    LET remainder == [last'.order EXCEPT !.amount = last'.remaining] IN
    /\ hash_hex(remainder) \in Resting(OwnAfter)
    /\ OrderIn(OwnAfter, hash_hex(remainder)) = remainder
    /\ hash_hex(remainder) \in DOMAIN order_loc'

\* C33: a submit that returns a result returns status Filled exactly when the
\* remaining amount is at most ERROR and nothing was rested, PartiallyFilled
\* exactly when the remaining amount exceeds ERROR and the remainder was
\* rested, and never Created.
C33_ReturnedStatus ==
    [][
        Admitted =>
            /\ last'.status \in {"Filled", "PartiallyFilled"}
            /\ last'.status = "Filled" <=>
                   last'.remaining <= ERROR /\ OwnAfter = OwnBefore
            /\ last'.status = "PartiallyFilled" <=>
                   last'.remaining > ERROR /\ RemainderRested
    ]_vars

\* a submit was matched in part and its remainder rested
C33_Witness ==
    /\ last.op = "new_order" /\ last.res = "ok"
    /\ last.status = "PartiallyFilled"
    /\ last.filled_orders /= <<>>
    /\ last.remaining < last.order.amount

\* a submit was matched in whole
C33_WitnessFilled ==
    /\ last.op = "new_order" /\ last.res = "ok"
    /\ last.status = "Filled"
    /\ last.filled_orders /= <<>>

\* the amount of the fills of the step that name t as seller (Ask) or as
\* buyer (Bid)
FillAmounts(t, side) ==
    SumOver(FillsOf(t, side),
            [i \in FillsOf(t, side) |-> last'.filled_orders[i].fill_amount])

\* the notional of those fills, each as Account::update computes it
FillNotionals(t, side) ==
    SumOver(FillsOf(t, side),
            [i \in FillsOf(t, side) |->
                Notional(last'.filled_orders[i].fill_amount, last'.filled_orders[i].price)])

\* the account of t after the step as settle is specified: the reserve of the
\* submitted order if t submitted it, then every fill that names t
SettledAccount(t) ==
    LET a == IF t = last'.order.traderAddress
             THEN ReserveOf(accounts[t], last'.order) ELSE accounts[t]
    IN  [a EXCEPT !.ddx_hold = @ - FillAmounts(t, Ask),
                  !.usd_balance = @ + FillNotionals(t, Ask),
                  !.ddx_balance = @ + FillAmounts(t, Bid),
                  !.usd_hold = @ - FillNotionals(t, Bid)]

\* a fill of the step names a trader the ledger has no account for
UntrackedParty ==
    \E i \in 1..Len(last'.filled_orders) :
        \/ last'.filled_orders[i].from \notin DOMAIN accounts
        \/ last'.filled_orders[i].to \notin DOMAIN accounts

\* C34: when a fill of a submit names a trader without an account, the
\* settlement does not abort, creates no account, and changes the accounts of
\* the tracked traders by their fills only.
C34_UntrackedSkipped ==
    [][
        Admitted /\ UntrackedParty =>
            /\ last'.res = "ok"
            /\ DOMAIN accounts' = DOMAIN accounts
            /\ \A t \in DOMAIN accounts : accounts'[t] = SettledAccount(t)
    ]_vars

\* a submit was filled against the resting order of a trader whose account
\* had been deleted, and the submitter was paid
C34_Witness ==
    /\ last.op = "new_order" /\ last.res = "ok"
    /\ \E i \in 1..Len(last.filled_orders) :
           /\ {last.filled_orders[i].from, last.filled_orders[i].to} \ DOMAIN accounts /= {}
           /\ last.filled_orders[i].fill_amount > 0
    /\ last.order.traderAddress \in DOMAIN accounts
    /\ accounts[last.order.traderAddress].ddx_balance
           + accounts[last.order.traderAddress].usd_balance > 0

\* the USD on hold for t beyond what its resting bids are worth
StrandedUsd(t) == accounts[t].usd_hold - BidNotionals(t)

\* the bids of t that rest before the step, are named by a fill of the step
\* and rest no longer after it: their lifetime ends by a fill
FilledOut(t) ==
    {id \in RestingOf(bid_book, t) :
        /\ id \notin Resting(bid_book')
        /\ \E i \in 1..Len(last'.filled_orders) : last'.filled_orders[i].taker_hash = id}

\* C35: over the lifetime of one bid, reserved at floor(amount*price/SCALE),
\* settled at floor(fill*price/SCALE) by each fill and ended by its last fill,
\* no settlement underflows the hold and at most ERROR of its reserve is left
\* on hold at the end: a submit that ends bids of another trader t by fills
\* settles, and leaves on hold for t at most ERROR more per ended bid than was
\* stranded before.
C35_BoundedDrift ==
    [][
        Admitted =>
            \A t \in DOMAIN accounts \ {last'.order.traderAddress} :
                FilledOut(t) /= {} =>
                    /\ last'.res = "ok"
                    /\ StrandedUsd(t)' <= StrandedUsd(t) + ERROR * Cardinality(FilledOut(t))
    ]_vars

\* C36: after every submit and every cancel, a resting bid and a resting ask
\* whose prices cross (bid price >= ask price) belong to the same trader.
C36_CrossedByOwnOnly ==
    \A b \in Resting(bid_book), a \in Resting(ask_book) :
        OrderIn(bid_book, b).price >= OrderIn(ask_book, a).price =>
            OrderIn(bid_book, b).traderAddress = OrderIn(ask_book, a).traderAddress

\* a submit that crossed its trader's own resting order and filled another
\* trader's order beside it has rested a remainder: the book is crossed
C36_Witness ==
    /\ last.op = "new_order" /\ last.res = "ok"
    /\ last.filled_orders /= <<>>
    /\ last.rested /= NoId
    /\ \E b \in Resting(bid_book), a \in Resting(ask_book) :
           OrderIn(bid_book, b).price >= OrderIn(ask_book, a).price

\* the half-book of `side` places its levels well: every price of the price
\* map names a slot of price_levels, no two prices name the same slot, and
\* every order in the slot of a price has that price and that side
WellPlaced(side) ==
    LET book == BookOf(side, bid_book, ask_book) IN
    /\ \A x \in DOMAIN book.price_map :
           /\ book.price_map[x] \in 0..(Len(book.price_levels) - 1)
           /\ \A id \in DOMAIN LevelAt(book, book.price_map[x]) :
                  /\ LevelAt(book, book.price_map[x])[id].price = x
                  /\ LevelAt(book, book.price_map[x])[id].side = side
    /\ \A x, y \in DOMAIN book.price_map :
           x /= y => book.price_map[x] /= book.price_map[y]

\* the index entry of order_id names the slot of the price of its order (the
\* price is one of the hashed fields of the id)
WellIndexed(order_id) ==
    LET side == order_loc[order_id][1]
        slot == order_loc[order_id][2]
        book == BookOf(side, bid_book, ask_book)
    IN  /\ side = order_id[4]
        /\ order_id[3] \in DOMAIN book.price_map
        /\ book.price_map[order_id[3]] = slot
        /\ order_id \in DOMAIN LevelAt(book, slot) =>
               LevelAt(book, slot)[order_id].price = order_id[3]

\* C37: in every reachable state each price of a half-book's price map names
\* one slot of its levels, distinct prices name distinct slots, every order in
\* that slot has that price and that half-book's side, and every index entry
\* (side, slot) names the slot of the price of its order.
C37_LevelPlacement ==
    /\ WellPlaced(Bid)
    /\ WellPlaced(Ask)
    /\ \A order_id \in DOMAIN order_loc : WellIndexed(order_id)

\* both half-books hold orders at two prices, and an order rests at the
\* second price of one of them
C37_Witness ==
    /\ Cardinality(DOMAIN bid_book.price_map) >= 2
    /\ Cardinality(DOMAIN ask_book.price_map) >= 1
    /\ \E order_id \in DOMAIN order_loc :
           /\ order_loc[order_id][2] >= 1
           /\ order_id \in Resting(BookOf(order_loc[order_id][1], bid_book, ask_book))
====
